---- MODULE Spec2Model ----
(***************************************************************************)
(* Model of render_fairness_indicator                                      *)
(* (tensorflow_model_analysis/addons/fairness/notebook/jupyter/renderer.py)*)
(*                                                                         *)
(* A notebook cell calls the function any number of times, one call at a   *)
(* time.  One call is followed statement by statement: pc is the line of   *)
(* renderer.py that runs next, "idle" between calls.  Python values are    *)
(* records [tag, keys]: None, or a dict with the set of its keys.          *)
(***************************************************************************)
EXTENDS Naturals, Sequences, FiniteSets

VARIABLES
    pc,                     \* "idle" or the line of renderer.py to run next
    slicing_metrics,        \* argument of the running call
    multi_slicing_metrics,  \* argument of the running call
    event_handlers,         \* argument of the running call
    view,                   \* local `view`: index into heap, 0 while unbound
    heap,                   \* every FairnessIndicatorViewer constructed so far
    constructed,            \* constructor invocations made by the running call
    setattrs,               \* attribute writes made by the running call
    returned,               \* the views handed to the caller, oldest first
    last,                   \* the last finished call: arguments, outcome, effects
    calls                   \* calls started so far

vars == <<pc, slicing_metrics, multi_slicing_metrics, event_handlers, view,
          heap, constructed, setattrs, returned, last, calls>>

\* Number of calls the notebook makes.
MaxCalls == 2

----------------------------------------------------------------------------
\* Python values

None == [tag |-> "None", keys |-> {}]

Dict(ks) == [tag |-> "dict", keys |-> ks]

\* A trait of a widget that nothing has assigned yet.
Unset == [tag |-> "unset", keys |-> {}]

SliceKeys == {"slice1", "slice2"}
EvalKeys == {"eval1", "eval2"}
HandlerKeys == {"on_click"}

SlicingMetricsValues == {None} \cup {Dict(ks) : ks \in SUBSET SliceKeys}
MultiSlicingMetricsValues == {None} \cup {Dict(ks) : ks \in SUBSET EvalKeys}
EventHandlersValues == {None} \cup {Dict(ks) : ks \in SUBSET HandlerKeys}

\* Python truth value of an argument: None and the empty dict are falsy.
Truthy(v) == v.tag # "None" /\ ~(v.tag = "dict" /\ v.keys = {})

----------------------------------------------------------------------------
\* Outcomes of a call

MsgExactlyOne ==
    "Exactly one of the \"slicing_metrics\" and \"multi_slicing_metrics\" parameters must be set."

MsgNotSupported == "\"multi_slicing_metrics\" is not supported on Jupyter yet."

NoOutcome == [kind |-> "none", type |-> "", msg |-> "", view |-> 0]

Raise(type, msg) == [kind |-> "raise", type |-> type, msg |-> msg, view |-> 0]

Return(v) == [kind |-> "return", type |-> "", msg |-> "", view |-> v]

\* A View as its constructor leaves it.
FairnessIndicatorViewer == [slicingMetrics |-> Unset, eventHandlers |-> Unset]

NoCall ==
    [sm |-> None, msm |-> None, eh |-> None, outcome |-> NoOutcome,
     constructed |-> 0, setattrs |-> <<>>]

\* The call ends with outcome o: its frame is dropped, the caller sees o.
Finish(o) ==
    /\ pc' = "idle"
    /\ last' = [sm |-> slicing_metrics, msm |-> multi_slicing_metrics,
                eh |-> event_handlers, outcome |-> o,
                constructed |-> constructed, setattrs |-> setattrs]
    /\ returned' = IF o.kind = "return" THEN Append(returned, o.view) ELSE returned
    /\ slicing_metrics' = None
    /\ multi_slicing_metrics' = None
    /\ event_handlers' = None
    /\ view' = 0
    /\ constructed' = 0
    /\ setattrs' = <<>>

----------------------------------------------------------------------------
Init ==
    /\ pc = "idle"
    /\ slicing_metrics = None
    /\ multi_slicing_metrics = None
    /\ event_handlers = None
    /\ view = 0
    /\ heap = <<>>
    /\ constructed = 0
    /\ setattrs = <<>>
    /\ returned = <<>>
    /\ last = NoCall
    /\ calls = 0

\* render_fairness_indicator(sm, msm, eh): the arguments are bound.
Call ==
    /\ pc = "idle"
    /\ calls < MaxCalls
    /\ \E sm \in SlicingMetricsValues, msm \in MultiSlicingMetricsValues,
          eh \in EventHandlersValues :
          /\ slicing_metrics' = sm
          /\ multi_slicing_metrics' = msm
          /\ event_handlers' = eh
    /\ calls' = calls + 1
    /\ pc' = "L34"
    /\ UNCHANGED <<view, heap, constructed, setattrs, returned, last>>

\* if ((slicing_metrics and multi_slicing_metrics) or
\*     (not slicing_metrics and not multi_slicing_metrics)): raise ValueError(...)
L34_MultiFirst ==
    /\ pc = "L34"
    /\ IF Truthy(multi_slicing_metrics)
       THEN /\ Finish(Raise("ValueError", MsgNotSupported))
            /\ UNCHANGED <<heap, calls>>
       ELSE IF ~Truthy(slicing_metrics)
       THEN /\ Finish(Raise("ValueError", MsgExactlyOne))
            /\ UNCHANGED <<heap, calls>>
       ELSE /\ pc' = "L39"
            /\ UNCHANGED <<slicing_metrics, multi_slicing_metrics, event_handlers,
                           view, heap, constructed, setattrs, returned, last, calls>>

L34_OnlyBoth ==
    /\ pc = "L34"
    /\ IF Truthy(slicing_metrics) /\ Truthy(multi_slicing_metrics)
       THEN /\ Finish(Raise("ValueError", MsgExactlyOne))
            /\ UNCHANGED <<heap, calls>>
       ELSE /\ pc' = "L39"
            /\ UNCHANGED <<slicing_metrics, multi_slicing_metrics, event_handlers,
                           view, heap, constructed, setattrs, returned, last, calls>>

L34_NotNone ==
    /\ pc = "L34"
    /\ IF \/ (slicing_metrics # None /\ multi_slicing_metrics # None)
          \/ (slicing_metrics = None /\ multi_slicing_metrics = None)
       THEN /\ Finish(Raise("ValueError", MsgExactlyOne))
            /\ UNCHANGED <<heap, calls>>
       ELSE /\ pc' = "L39"
            /\ UNCHANGED <<slicing_metrics, multi_slicing_metrics, event_handlers,
                           view, heap, constructed, setattrs, returned, last, calls>>

L34_Handlers ==
    /\ pc = "L34"
    /\ IF \/ (Truthy(slicing_metrics) /\ Truthy(multi_slicing_metrics))
          \/ (~Truthy(slicing_metrics) /\ ~Truthy(multi_slicing_metrics))
          \/ ~Truthy(event_handlers)
       THEN /\ Finish(Raise("ValueError", MsgExactlyOne))
            /\ UNCHANGED <<heap, calls>>
       ELSE /\ pc' = "L39"
            /\ UNCHANGED <<slicing_metrics, multi_slicing_metrics, event_handlers,
                           view, heap, constructed, setattrs, returned, last, calls>>

L34_ConstructFirst ==
    /\ pc = "L34"
    /\ heap' = Append(heap, FairnessIndicatorViewer)
    /\ IF \/ (Truthy(slicing_metrics) /\ Truthy(multi_slicing_metrics))
          \/ (~Truthy(slicing_metrics) /\ ~Truthy(multi_slicing_metrics))
       THEN /\ pc' = "idle"
            /\ last' = [sm |-> slicing_metrics, msm |-> multi_slicing_metrics,
                        eh |-> event_handlers,
                        outcome |-> Raise("ValueError", MsgExactlyOne),
                        constructed |-> constructed + 1, setattrs |-> setattrs]
            /\ slicing_metrics' = None
            /\ multi_slicing_metrics' = None
            /\ event_handlers' = None
            /\ UNCHANGED <<view, constructed, setattrs, returned, calls>>
       ELSE /\ pc' = "L39"
            /\ constructed' = constructed + 1
            /\ UNCHANGED <<slicing_metrics, multi_slicing_metrics, event_handlers,
                           view, setattrs, returned, last, calls>>

L34 ==
    /\ pc = "L34"
    /\ IF \/ (Truthy(slicing_metrics) /\ Truthy(multi_slicing_metrics))
          \/ (~Truthy(slicing_metrics) /\ ~Truthy(multi_slicing_metrics))
       THEN /\ Finish(Raise("ValueError", MsgExactlyOne))
            /\ UNCHANGED <<heap, calls>>
       ELSE /\ pc' = "L39"
            /\ UNCHANGED <<slicing_metrics, multi_slicing_metrics, event_handlers,
                           view, heap, constructed, setattrs, returned, last, calls>>

\* if multi_slicing_metrics: raise ValueError(...)
L39_Skipped ==
    /\ pc = "L39"
    /\ pc' = "L42"
    /\ UNCHANGED <<slicing_metrics, multi_slicing_metrics, event_handlers,
                   view, heap, constructed, setattrs, returned, last, calls>>

L39_NotImplemented ==
    /\ pc = "L39"
    /\ IF Truthy(multi_slicing_metrics)
       THEN /\ Finish(Raise("NotImplementedError", MsgNotSupported))
            /\ UNCHANGED <<heap, calls>>
       ELSE /\ pc' = "L42"
            /\ UNCHANGED <<slicing_metrics, multi_slicing_metrics, event_handlers,
                           view, heap, constructed, setattrs, returned, last, calls>>

L39 ==
    /\ pc = "L39"
    /\ IF Truthy(multi_slicing_metrics)
       THEN /\ Finish(Raise("ValueError", MsgNotSupported))
            /\ UNCHANGED <<heap, calls>>
       ELSE /\ pc' = "L42"
            /\ UNCHANGED <<slicing_metrics, multi_slicing_metrics, event_handlers,
                           view, heap, constructed, setattrs, returned, last, calls>>

\* view = widget.FairnessIndicatorViewer()
L42_Shared ==
    /\ pc = "L42"
    /\ IF heap = <<>>
       THEN heap' = <<FairnessIndicatorViewer>>
       ELSE heap' = heap
    /\ view' = 1
    /\ constructed' = constructed + (IF heap = <<>> THEN 1 ELSE 0)
    /\ pc' = "L43"
    /\ UNCHANGED <<slicing_metrics, multi_slicing_metrics, event_handlers,
                   setattrs, returned, last, calls>>

L42 ==
    /\ pc = "L42"
    /\ heap' = Append(heap, FairnessIndicatorViewer)
    /\ view' = Len(heap) + 1
    /\ constructed' = constructed + 1
    /\ pc' = "L43"
    /\ UNCHANGED <<slicing_metrics, multi_slicing_metrics, event_handlers,
                   setattrs, returned, last, calls>>

\* view.slicingMetrics = slicing_metrics
L43_Multi ==
    /\ pc = "L43"
    /\ heap' = [heap EXCEPT ![view].slicingMetrics = multi_slicing_metrics]
    /\ setattrs' = Append(setattrs, <<view, "slicingMetrics">>)
    /\ pc' = "L44"
    /\ UNCHANGED <<slicing_metrics, multi_slicing_metrics, event_handlers,
                   view, constructed, returned, last, calls>>

L43 ==
    /\ pc = "L43"
    /\ heap' = [heap EXCEPT ![view].slicingMetrics = slicing_metrics]
    /\ setattrs' = Append(setattrs, <<view, "slicingMetrics">>)
    /\ pc' = "L44"
    /\ UNCHANGED <<slicing_metrics, multi_slicing_metrics, event_handlers,
                   view, constructed, returned, last, calls>>

\* view.eventHandlers = event_handlers
L44_Compare ==
    /\ pc = "L44"
    /\ heap' = [heap EXCEPT ![view].eventHandlers = event_handlers]
    /\ setattrs' = setattrs \o <<<<view, "slicingMetricsCompare">>,
                                 <<view, "eventHandlers">>>>
    /\ pc' = "L45"
    /\ UNCHANGED <<slicing_metrics, multi_slicing_metrics, event_handlers,
                   view, constructed, returned, last, calls>>

L44 ==
    /\ pc = "L44"
    /\ heap' = [heap EXCEPT ![view].eventHandlers = event_handlers]
    /\ setattrs' = Append(setattrs, <<view, "eventHandlers">>)
    /\ pc' = "L45"
    /\ UNCHANGED <<slicing_metrics, multi_slicing_metrics, event_handlers,
                   view, constructed, returned, last, calls>>

\* return view
L45 ==
    /\ pc = "L45"
    /\ Finish(Return(view))
    /\ UNCHANGED <<heap, calls>>

Next == Call \/ L34 \/ L39 \/ L42 \/ L43 \/ L44 \/ L45

Spec == Init /\ [][Next]_vars

----------------------------------------------------------------------------
\* Vocabulary of the properties

\* A call has finished and `last` describes it.
Finished == last.outcome.kind # "none"

\* The step that ends the running call.
Completes == pc # "idle" /\ pc' = "idle"

InvalidArgument == Raise("ValueError", MsgExactlyOne)

NotSupported == Raise("ValueError", MsgNotSupported)

\* What a caller can tell one outcome from another by: returned or raised,
\* and the message of the error.
OutcomeKind(o) == <<o.kind, o.msg>>

----------------------------------------------------------------------------
\* C1: a call with both slicing_metrics and multi_slicing_metrics non-empty
\* fails with the "Exactly one of ..." error whatever event_handlers is; it
\* never fails with the "not supported" error and constructs no View.
C1_BothSetInvalidArgument ==
    (Finished /\ Truthy(last.sm) /\ Truthy(last.msm))
        => /\ last.outcome = InvalidArgument
           /\ last.outcome # NotSupported
           /\ last.constructed = 0

C1_Witness ==
    /\ Finished
    /\ last.sm = Dict({"slice1"})
    /\ last.msm = Dict({"eval1", "eval2"})
    /\ last.eh = Dict({"on_click"})
    /\ last.outcome.kind = "raise"

\* C2: a call with neither metrics parameter set, where None and the empty
\* dict both count as not set, fails with the "Exactly one of ..." error
\* whatever event_handlers is.
C2_NeitherSetInvalidArgument ==
    (Finished /\ last.sm \in {None, Dict({})} /\ last.msm \in {None, Dict({})})
        => last.outcome = InvalidArgument

C2_Witness ==
    /\ Finished
    /\ last.sm = Dict({})
    /\ last.msm = Dict({})
    /\ last.eh # None
    /\ last.outcome.kind = "raise"

\* C3: a call with multi_slicing_metrics non-empty and slicing_metrics None
\* or empty fails with the "not supported" error, whatever the entries of
\* multi_slicing_metrics and whatever event_handlers is; no View is made.
C3_MultiOnlyNotSupported ==
    (Finished /\ Truthy(last.msm) /\ ~Truthy(last.sm))
        => /\ last.outcome = NotSupported
           /\ last.constructed = 0
           /\ last.setattrs = <<>>

C3_Witness ==
    /\ Finished
    /\ last.msm = Dict({"eval1", "eval2"})
    /\ last.sm = Dict({})
    /\ last.eh = Dict({"on_click"})
    /\ last.outcome.kind = "raise"

\* C4: a call with slicing_metrics a non-empty mapping M, multi_slicing_metrics
\* not set and event_handlers H returns a View whose slicingMetrics is M and
\* whose eventHandlers is H.
C4_ViewCarriesArguments ==
    (Finished /\ Truthy(last.sm) /\ ~Truthy(last.msm))
        => /\ last.outcome.kind = "return"
           /\ last.outcome.view \in 1..Len(heap)
           /\ heap[last.outcome.view].slicingMetrics = last.sm
           /\ heap[last.outcome.view].eventHandlers = last.eh

C4_Witness ==
    /\ Finished
    /\ last.sm = Dict({"slice1", "slice2"})
    /\ last.msm = None
    /\ last.eh = Dict({"on_click"})
    /\ last.outcome.kind = "return"
    /\ heap[last.outcome.view].eventHandlers = Dict({"on_click"})

\* C5: a call that fails has constructed no View; the constructor runs only
\* after both checks have passed, so the Views constructed are as many as the
\* calls that returned.
C5_NoViewOnFailure ==
    /\ (last.outcome.kind = "raise" => last.constructed = 0)
    /\ (last.outcome.kind = "return" => last.constructed = 1)
    /\ (pc \in {"L34", "L39", "L42"} => constructed = 0)
    /\ (pc \in {"idle", "L34", "L39", "L42"} => Len(heap) = Len(returned))
    /\ (pc \in {"L43", "L44", "L45"} => Len(heap) = Len(returned) + 1)

C5_Witness ==
    /\ pc = "idle"
    /\ last.outcome.kind = "raise"
    /\ Len(returned) = 1
    /\ Len(heap) = 1

\* C6: every successful call returns a View that no earlier call returned, no
\* step of any call changes a field of a View returned earlier, and nothing
\* of a call is left when it has ended.
C6_FreshViewAndFrame ==
    [][/\ \A i \in 1..Len(returned) :
             /\ returned[i] \in 1..Len(heap')
             /\ heap'[returned[i]] = heap[returned[i]]
       /\ SubSeq(returned', 1, Len(returned)) = returned
       /\ Len(returned') > Len(returned) =>
             \A i \in 1..Len(returned) : returned'[Len(returned')] # returned[i]
       /\ pc' = "idle" =>
             /\ view' = 0
             /\ slicing_metrics' = None
             /\ multi_slicing_metrics' = None
             /\ event_handlers' = None]_vars

C6_Witness ==
    /\ pc = "idle"
    /\ Len(returned) = 2
    /\ returned[1] # returned[2]
    /\ heap[returned[1]] # heap[returned[2]]

\* C7 as stated: the error of the exclusivity check and the error of the
\* multi-result check are of different kinds (exception types).
C7_Original ==
    [][(/\ Completes
        /\ last.outcome.kind = "raise"
        /\ last'.outcome.kind = "raise"
        /\ last.outcome.msg # last'.outcome.msg)
            => last.outcome.type # last'.outcome.type]_vars

\* C7 amended: both failures raise the same kind of error, ValueError; the
\* exclusivity failure carries the "Exactly one of ..." message and the
\* multi-result failure the "not supported" message, and the two messages
\* differ.
C7_SameTypeDistinctMessage ==
    /\ MsgExactlyOne # MsgNotSupported
    /\ last.outcome.kind = "raise" =>
          /\ last.outcome.type = "ValueError"
          /\ last.outcome.msg = MsgExactlyOne <=> (Truthy(last.sm) <=> Truthy(last.msm))
          /\ last.outcome.msg = MsgNotSupported <=> (Truthy(last.msm) /\ ~Truthy(last.sm))

C7_Witness ==
    /\ last.outcome = NotSupported
    /\ last.outcome.type = InvalidArgument.type
    /\ calls = 2

\* C8 as stated: a call that passes validation makes three attribute writes
\* on the new View.
C8_Original ==
    last.outcome.kind = "return" => Len(last.setattrs) = 3

\* C8 amended: a call that passes validation makes two attribute writes on
\* the new View, slicingMetrics then eventHandlers, before returning it.
C8_TwoAttributeWrites ==
    last.outcome.kind = "return" =>
        last.setattrs = << <<last.outcome.view, "slicingMetrics">>,
                           <<last.outcome.view, "eventHandlers">> >>

C8_Witness ==
    /\ last.outcome.kind = "return"
    /\ Len(last.setattrs) = 2

\* C9: the outcome kind of a call depends only on whether slicing_metrics and
\* multi_slicing_metrics are each empty or not: a call that agrees on that
\* with the call before it ends in the same kind of outcome, whatever the
\* event_handlers of the two calls.
C9_OutcomeIgnoresHandlers ==
    [][(/\ Completes
        /\ Finished
        /\ Truthy(last'.sm) = Truthy(last.sm)
        /\ Truthy(last'.msm) = Truthy(last.msm))
            => OutcomeKind(last'.outcome) = OutcomeKind(last.outcome)]_vars

C9_Witness ==
    /\ pc = "idle"
    /\ Len(returned) = 2
    /\ heap[returned[1]].slicingMetrics = heap[returned[2]].slicingMetrics
    /\ heap[returned[1]].eventHandlers = None
    /\ heap[returned[2]].eventHandlers = Dict({"on_click"})

\* C10: every call ends in exactly one of the three outcomes, and returns a
\* View exactly when slicing_metrics is non-empty and multi_slicing_metrics
\* is None or empty; an empty multi_slicing_metrics counts as not set.
C10_ReturnsIffOnlySlicing ==
    Finished =>
        /\ \/ last.outcome = InvalidArgument
           \/ last.outcome = NotSupported
           \/ last.outcome = Return(last.outcome.view) /\ last.outcome.view # 0
        /\ last.outcome.kind = "return" <=> (Truthy(last.sm) /\ ~Truthy(last.msm))

C10_Witness ==
    /\ Finished
    /\ last.sm = Dict({"slice2"})
    /\ last.msm = Dict({})
    /\ last.outcome.kind = "return"

====
